---- MODULE Spec2Model ----
(***************************************************************************)
(* Model of q::detail::shared_channel (libs/q/include/q/channel.hpp): a    *)
(* promise-bearing channel with a pause flag, a low watermark and a resume *)
(* notification, together with its readable/writable endpoint handles.     *)
(*                                                                         *)
(* send, receive, set_resume_notification and the locked block of close    *)
(* run under the channel mutex and are therefore single steps.  close      *)
(* invokes its snapshot of the notification after the mutex is released,   *)
(* which is a step of its own.  The task receive() pushes on default_queue *)
(* runs resume() later, as a step of the executor.                         *)
(***************************************************************************)
EXTENDS Integers, Sequences, FiniteSets, TLC

\* ---------------------------------------------------------------- bounds
MaxBuffer == 4      \* largest buffer_count a channel is constructed with
MaxSends == 5       \* send calls in one behaviour
MaxReceives == 3    \* receive calls in one behaviour
MaxCloses == 1      \* explicit close calls in one behaviour
MaxBlocks == 3      \* blocks the user sends to socket.out( ) in one behaviour
MaxBlockLen == 2    \* a byte_block holds 1..MaxBlockLen bytes
MaxReads == 8       \* read completions that carry data in one behaviour
MaxConsumes == 5    \* receive calls of the user on socket.in( ) in one behaviour
MaxCache == 2       \* largest cache_size a socket is built with

\* The channel never inspects a value (tuple_type is a template parameter):
\* the value passed by the k-th send call is named k.
Values == 1..MaxSends

\* State of a promise returned by receive.
Pending == 0          \* a defer parked in waiters_, not yet resolved
ChannelClosed == -1   \* rejected with channel_closed_exception

VARIABLES
    buffer_count,         \* const std::size_t buffer_count_
    resume_count,         \* const std::size_t resume_count_
    queue,                \* std::queue< tuple_type > queue_
    waiters,              \* std::list< shared_ptr< defer_type > > waiters_,
                          \*   each defer named by the index of its receive call
    closed,               \* std::atomic< bool > closed_
    paused,               \* std::atomic< bool > paused_
    resume_notification,  \* task resume_notification_: TRUE iff non-empty
    resume_tasks,         \* tasks [self]{ self->resume( ); } waiting on default_queue_
    owners,               \* sides whose shared_channel_owner is still alive
    close_pending,        \* close calls past the mutex, holding a non-empty snapshot
    results,              \* results[k]: outcome of the promise of the k-th receive call
    sent,                 \* values accepted by send, in call order
    rejected,             \* send calls that threw channel_closed_exception
    fired,                \* invocations of the notification made by resume( )
    close_fired,          \* invocations of the notification made by close( )
    close_calls,          \* explicit close calls made so far
    receives_at_close,    \* receive calls made before the first close, -1 while open
    \* the channel mutex, for the specification that splits set_resume_notification
    mutex,                \* "free", or "set" while set_resume_notification holds it
    storing,              \* the task set_resume_notification is storing
    race,                 \* TRUE once resume_notification_ was read during a store
    \* tcp_socket::pimpl; the channel variables above are then one of its two
    \* channels and the other one is kept as peer_closed / peer_cause
    sock_closed,          \* bool closed_
    rpc,                  \* where the reactor thread stands inside i_close, or "idle"
    i_status,             \* the expect< void > status of the i_close in progress
    cause,                \* exception attached to the close of the modelled channel
    peer_closed,          \* the other channel of the socket is closed
    peer_cause,           \* exception attached to the close of the other channel
    endpoints_set,        \* writable_in_ and readable_out_ are non-null
    handle,               \* the uv handle: "open", "closing" or "closed"
    keep_alive,           \* keep_alive_ holds the pimpl
    cache_size,           \* const std::size_t cache_size
    block_len,            \* block_len[v]: size( ) of the byte_block named v
    cached_bytes,         \* std::size_t cached_bytes_
    write_reqs,           \* write_reqs_: the blocks of the write_info entries
    uv_writes,            \* requests handed to uv_write whose callback has not run
    submitted,            \* blocks handed to uv_write, in call order
    handled,              \* read calls of the pump whose continuation has run
    reading,              \* uv_read_start is in force on the handle
    pending_starts        \* invocations of the resume notification whose body
                          \*   ( weak_self.lock( ), start_read( ) ) has not run yet

vars == << buffer_count, resume_count, queue, waiters, closed, paused,
           resume_notification, resume_tasks, owners, close_pending,
           results, sent, rejected, fired, close_fired, close_calls,
           receives_at_close >>

lock_vars == << mutex, storing, race >>

\* Everything that is not a field or an observation of the channel.
sock_vars == << sock_closed, rpc, i_status, cause, peer_closed, peer_cause,
               endpoints_set, handle, keep_alive >>

out_vars == << cache_size, block_len, cached_bytes, write_reqs, uv_writes,
              submitted, handled >>

in_vars == << reading, pending_starts >>

ext_vars == << lock_vars, sock_vars, out_vars, in_vars >>

all_vars == << vars, ext_vars >>

\* ------------------------------------------------------------ pure helpers

\* A promise that holds a value.
IsValue(r) == r \in Values
IsBlock(r) == r \in Values

Min(a, b) == IF a < b THEN a ELSE b

\* default_resume_count( count )
default_resume_count(count) ==
    IF count < 3 THEN count ELSE (count * 3) \div 4

\* shared_channel::should_send
should_send == ~paused /\ ~closed

\* send: if ( closed_.load( ) ) Q_THROW( channel_closed_exception( ) )
SendThrowsNever == FALSE
SendThrows == closed

\* send: if ( queue_.size( ) >= buffer_count_ ) paused_ = true, tested before the push
SendPaused(q, p) == IF Len(q) >= buffer_count THEN TRUE ELSE p

\* receive: the queue_.empty( ) test selecting the branch that pops a value
ReceiveTakesValueNever == FALSE
ReceiveTakesValueOpenOnly == queue # << >> /\ ~closed
ReceiveTakesValue == queue # << >>

\* receive: if ( closed_.load( ) ) return reject< >( channel_closed_exception( ) )
ReceiveRejectsNever == FALSE
ReceiveRejects == closed

\* receive: waiters_.push_back( defer )
WaitersPushFront(ws, d) == << d >> \o ws
WaitersPushBack(ws, d) == Append(ws, d)

\* receive: if ( queue_.size( ) < resume_count_ ) default_queue_->push( resume task )
ReceiveSchedulesResume(q) == Len(q) < resume_count

\* resume: paused_.exchange( false ) returned true and trigger_resume is non-empty
ResumeFiresUnpaused(p, n) == n
ResumeFires(p, n) == p /\ n

\* close: waiters_.clear( )
WaitersKept(ws) == ws
WaitersCleared(ws) == << >>

\* close: every waiter->set_exception( channel_closed_exception( ) )
RejectWaiters(rs, ws) ==
    [k \in DOMAIN rs |->
        IF \E i \in DOMAIN ws : ws[i] = k THEN ChannelClosed ELSE rs[k]]

\* ------------------------------------------------------------------- Init

\* shared_channel( queue, buffer_count, resume_count ), as constructed by
\* channel( queue, buffer_count ) and channel( queue, buffer_count, resume_count )
channel(count, rc) ==
    /\ buffer_count = count
    /\ resume_count = Min(rc, count)
    /\ queue = << >>
    /\ waiters = << >>
    /\ closed = FALSE
    /\ paused = FALSE
    /\ resume_notification = FALSE
    /\ resume_tasks = 0
    /\ owners = {"readable", "writable"}
    /\ close_pending = 0
    /\ results = << >>
    /\ sent = << >>
    /\ rejected = 0
    /\ fired = 0
    /\ close_fired = 0
    /\ close_calls = 0
    /\ receives_at_close = -1

\* A channel on its own: no mutex held, no socket around it.
NoLock ==
    /\ mutex = "free"
    /\ storing = FALSE
    /\ race = FALSE

NoSocket ==
    /\ sock_closed = FALSE
    /\ rpc = "idle"
    /\ i_status = "none"
    /\ cause = "none"
    /\ peer_closed = FALSE
    /\ peer_cause = "none"
    /\ endpoints_set = FALSE
    /\ handle = "closed"
    /\ keep_alive = FALSE

NoPump ==
    /\ cache_size = 0
    /\ block_len = [v \in Values |-> 0]
    /\ cached_bytes = 0
    /\ write_reqs = << >>
    /\ uv_writes = << >>
    /\ submitted = << >>
    /\ handled = {}

NoRead ==
    /\ reading = FALSE
    /\ pending_starts = 0

ChannelOnly == NoLock /\ NoSocket /\ NoPump /\ NoRead

Init ==
    /\ buffer_count \in 1..MaxBuffer
    /\ \E rc \in {default_resume_count(buffer_count)} \cup (1..MaxBuffer) :
           channel(buffer_count, rc)
    /\ ChannelOnly

\* ---------------------------------------------------------------- actions

\* writable::send -> shared_channel::send, v the value passed
send(v) ==
    /\ "writable" \in owners
    /\ v = Len(sent) + rejected + 1
    /\ IF SendThrows
       THEN /\ rejected' = rejected + 1
            /\ UNCHANGED << queue, waiters, paused, results, sent >>
       ELSE /\ sent' = Append(sent, v)
            /\ rejected' = rejected
            /\ IF waiters = << >>
               THEN /\ paused' = SendPaused(queue, paused)
                    /\ queue' = Append(queue, v)
                    /\ UNCHANGED << waiters, results >>
               ELSE /\ results' = [results EXCEPT ![Head(waiters)] = v]
                    /\ waiters' = Tail(waiters)
                    /\ UNCHANGED << queue, paused >>
    /\ UNCHANGED << buffer_count, resume_count, closed, resume_notification,
                    resume_tasks, owners, close_pending, fired, close_fired,
                    close_calls, receives_at_close >>

\* readable::receive -> shared_channel::receive
receive ==
    /\ "readable" \in owners
    /\ IF ReceiveTakesValue
       THEN /\ results' = Append(results, Head(queue))
            /\ queue' = Tail(queue)
            /\ resume_tasks' = IF ReceiveSchedulesResume(Tail(queue))
                               THEN resume_tasks + 1 ELSE resume_tasks
            /\ UNCHANGED << waiters, paused, fired >>
       ELSE IF ReceiveRejects
       THEN /\ results' = Append(results, ChannelClosed)
            /\ UNCHANGED << queue, waiters, paused, fired, resume_tasks >>
       ELSE /\ results' = Append(results, Pending)
            /\ waiters' = WaitersPushBack(waiters, Len(results) + 1)
            \* resume( ), called inline
            /\ paused' = FALSE
            /\ fired' = IF ResumeFires(paused, resume_notification)
                        THEN fired + 1 ELSE fired
            /\ UNCHANGED << queue, resume_tasks >>
    /\ UNCHANGED << buffer_count, resume_count, closed, resume_notification,
                    owners, close_pending, sent, rejected, close_fired,
                    close_calls, receives_at_close >>

\* The task pushed on default_queue_ by receive runs shared_channel::resume
resume_task ==
    /\ resume_tasks > 0
    /\ resume_tasks' = resume_tasks - 1
    /\ paused' = FALSE
    /\ fired' = IF ResumeFires(paused, resume_notification)
                THEN fired + 1 ELSE fired
    /\ UNCHANGED << buffer_count, resume_count, queue, waiters, closed,
                    resume_notification, owners, close_pending, results, sent,
                    rejected, close_fired, close_calls, receives_at_close >>

\* writable::set_resume_notification -> shared_channel::set_resume_notification
set_resume_notification(fn) ==
    /\ "writable" \in owners
    /\ resume_notification' = fn
    /\ UNCHANGED << buffer_count, resume_count, queue, waiters, closed, paused,
                    resume_tasks, owners, close_pending, results, sent,
                    rejected, fired, close_fired, close_calls,
                    receives_at_close >>

\* shared_channel::close, the block under the mutex
CloseLocked ==
    /\ closed' = TRUE
    /\ results' = RejectWaiters(results, waiters)
    /\ waiters' = WaitersCleared(waiters)
    /\ close_pending' = IF resume_notification
                        THEN close_pending + 1 ELSE close_pending
    /\ receives_at_close' = IF closed THEN receives_at_close ELSE Len(results)
    /\ UNCHANGED << buffer_count, resume_count, queue, paused,
                    resume_notification, resume_tasks, sent, rejected, fired,
                    close_fired >>

\* readable::close / writable::close on a live handle
close(side) ==
    /\ side \in owners
    /\ close_calls' = close_calls + 1
    /\ CloseLocked
    /\ UNCHANGED owners

\* ~shared_channel_owner: the last handle of a side is dropped
drop_owner(side) ==
    /\ side \in owners
    /\ owners' = owners \ {side}
    /\ CloseLocked
    /\ UNCHANGED close_calls

\* shared_channel::close, after the mutex: if ( notification ) notification( )
close_notify ==
    /\ close_pending > 0
    /\ close_pending' = close_pending - 1
    /\ close_fired' = close_fired + 1
    /\ UNCHANGED << buffer_count, resume_count, queue, waiters, closed, paused,
                    resume_notification, resume_tasks, owners, results, sent,
                    rejected, fired, close_calls, receives_at_close >>

\* ------------------------------------------------- the channel on its own

Send(v) == send(v) /\ UNCHANGED ext_vars

Receive == Len(results) < MaxReceives /\ receive /\ UNCHANGED ext_vars

RunResumeTask == resume_task /\ UNCHANGED ext_vars

SetResumeNotification(fn) == set_resume_notification(fn) /\ UNCHANGED ext_vars

Close(side) == close_calls < MaxCloses /\ close(side) /\ UNCHANGED ext_vars

DropOwner(side) == drop_owner(side) /\ UNCHANGED ext_vars

CloseNotify == close_notify /\ UNCHANGED ext_vars

Next ==
    \/ \E v \in Values : Send(v)
    \/ Receive
    \/ RunResumeTask
    \/ \E fn \in BOOLEAN : SetResumeNotification(fn)
    \/ \E side \in {"readable", "writable"} : Close(side)
    \/ \E side \in {"readable", "writable"} : DropOwner(side)
    \/ CloseNotify

Spec == Init /\ [][Next]_all_vars

TypeOK ==
    /\ buffer_count \in 1..MaxBuffer
    /\ resume_count \in 1..buffer_count
    /\ queue \in Seq(Values) /\ Len(queue) <= MaxSends
    /\ closed \in BOOLEAN /\ paused \in BOOLEAN
    /\ resume_notification \in BOOLEAN
    /\ owners \subseteq {"readable", "writable"}
    /\ \A k \in DOMAIN results : results[k] \in Values \cup {Pending, ChannelClosed}

\* ------------------------------------- the channel with its mutex explicit
\* Every member function that takes Q_AUTO_UNIQUE_LOCK( mutex_ ) can start
\* only while the mutex is free.  set_resume_notification is split in two, so
\* that the store into resume_notification_ has a duration; the other locked
\* functions stay single steps.  resume( ) run by the task on default_queue_
\* takes no lock.

LockedSend(v) == mutex = "free" /\ send(v) /\ UNCHANGED ext_vars

LockedReceive ==
    /\ mutex = "free"
    /\ Len(results) < MaxReceives
    /\ receive
    /\ UNCHANGED ext_vars

LockedClose(side) ==
    /\ mutex = "free"
    /\ close_calls < MaxCloses
    /\ close(side)
    /\ UNCHANGED ext_vars

LockedDropOwner(side) == mutex = "free" /\ drop_owner(side) /\ UNCHANGED ext_vars

UnlockedCloseNotify == close_notify /\ UNCHANGED ext_vars

\* set_resume_notification: the lock is taken and the store begins
BeginSetResumeNotification(fn) ==
    /\ "writable" \in owners
    /\ mutex = "free"
    /\ mutex' = "set"
    /\ storing' = fn
    /\ UNCHANGED << vars, race, sock_vars, out_vars, in_vars >>

\* set_resume_notification: the store is complete and the lock is released
EndSetResumeNotification ==
    /\ mutex = "set"
    /\ mutex' = "free"
    /\ resume_notification' = storing
    /\ UNCHANGED << buffer_count, resume_count, queue, waiters, closed, paused,
                    resume_tasks, owners, close_pending, results, sent,
                    rejected, fired, close_fired, close_calls,
                    receives_at_close, storing, race, sock_vars, out_vars,
                    in_vars >>

\* resume( ) called by the scheduled task: does it hold the mutex when it
\* reads resume_notification_?
ResumeTaskLocks == FALSE

\* The task on default_queue_ runs resume( ).  When paused_.exchange( false )
\* returned true it reads resume_notification_; a read made while another
\* thread is storing is a data race, after which the task may or may not
\* invoke a notification.
UnlockedResumeTask ==
    /\ resume_tasks > 0
    /\ ResumeTaskLocks => mutex = "free"
    /\ IF paused /\ mutex = "set"
       THEN /\ race' = TRUE
            /\ resume_tasks' = resume_tasks - 1
            /\ paused' = FALSE
            /\ fired' \in {fired, fired + 1}
            /\ UNCHANGED << buffer_count, resume_count, queue, waiters, closed,
                            resume_notification, owners, close_pending,
                            results, sent, rejected, close_fired, close_calls,
                            receives_at_close, mutex, storing, sock_vars,
                            out_vars, in_vars >>
       ELSE resume_task /\ UNCHANGED ext_vars

LockNext ==
    \/ \E v \in Values : LockedSend(v)
    \/ LockedReceive
    \/ UnlockedResumeTask
    \/ \E fn \in BOOLEAN : BeginSetResumeNotification(fn)
    \/ EndSetResumeNotification
    \/ \E side \in {"readable", "writable"} : LockedClose(side)
    \/ \E side \in {"readable", "writable"} : LockedDropOwner(side)
    \/ UnlockedCloseNotify

LockSpec == Init /\ [][LockNext]_all_vars

\* --------------------------------------------- tcp_socket: the outbound pump
\* The channel variables are channel_out (writable side held by the user,
\* readable_out_ by the pimpl); channel_in is kept as peer_closed / peer_cause.
\* Everything below except UserSend and UserCloseOut runs on the reactor
\* thread, one callback at a time.

backlog_out == 10

Range(f) == {f[i] : i \in DOMAIN f}

\* write_reqs_.erase( iter )
EraseToEnd(reqs, req) == << >>
Erase(reqs, req) == SelectSeq(reqs, LAMBDA r : r # req)

\* i_attach_dispatcher has built the channels and set keep_alive_; start_read
\* and begin_write are still to be called
AttachKeepsAliveNot == FALSE
AttachKeepsAlive == TRUE

Attaching ==
    /\ sock_closed = FALSE
    /\ rpc = "attach"
    /\ i_status = "none"
    /\ cause = "none"
    /\ peer_closed = FALSE
    /\ peer_cause = "none"
    /\ endpoints_set = TRUE
    /\ handle = "open"
    /\ keep_alive = AttachKeepsAlive

OutInit ==
    /\ channel(backlog_out, default_resume_count(backlog_out))
    /\ NoLock
    /\ NoRead
    /\ Attaching
    /\ cache_size \in 1..MaxCache
    /\ block_len = [v \in Values |-> 0]
    /\ cached_bytes = 0
    /\ write_reqs = << >>
    /\ uv_writes = << >>
    /\ submitted = << >>
    /\ handled = {}

\* begin_write: if ( !readable_out_ ) return; readable_out_->read( ... )
begin_write ==
    IF endpoints_set THEN receive ELSE UNCHANGED vars

\* i_close, up to and including keep_alive_ = shared_from_this( )
i_close_begin(st) ==
    IF sock_closed
    THEN UNCHANGED sock_vars
    ELSE /\ sock_closed' = TRUE
         /\ i_status' = st
         /\ keep_alive' = TRUE
         /\ rpc' = "close_in"
         /\ UNCHANGED << cause, peer_closed, peer_cause, endpoints_set, handle >>

\* i_attach_dispatcher: start_read( ); begin_write( )
OutAttach ==
    /\ rpc = "attach"
    /\ rpc' = "idle"
    /\ begin_write
    /\ UNCHANGED << lock_vars, in_vars, out_vars, sock_closed, i_status, cause,
                    peer_closed, peer_cause, endpoints_set, handle, keep_alive >>

\* The user: socket.out( ).send( block ), the block n bytes long
UserSend(v, n) ==
    /\ Len(sent) + rejected < MaxBlocks
    /\ send(v)
    /\ block_len' = [block_len EXCEPT ![v] = n]
    /\ UNCHANGED << lock_vars, in_vars, sock_vars, cache_size, cached_bytes, write_reqs,
                    uv_writes, submitted, handled >>

\* The user: socket.out( ).close( )
UserCloseOut ==
    /\ close_calls < MaxCloses
    /\ close("writable")
    /\ UNCHANGED ext_vars

\* The resume task receive pushed on internal_queue_
OutResumeTask ==
    /\ rpc = "idle"
    /\ resume_task
    /\ UNCHANGED ext_vars

\* The byte_block is destroyed: its length is no longer held anywhere
Free(block) == [block_len EXCEPT ![block] = 0]

\* on_value: cached_bytes_ >= cache_size clears should_read_more
ShouldReadMoreAlways(cached) == TRUE
ShouldReadMore(cached) == ~(cached >= cache_size)

\* begin_write, the on_value continuation of the k-th read
OnValue(k) ==
    /\ rpc = "idle"
    /\ k \in DOMAIN results /\ k \notin handled
    /\ IsBlock(results[k])
    /\ handled' = handled \cup {k}
    /\ IF sock_closed
       THEN /\ block_len' = Free(results[k])
            /\ UNCHANGED << vars, cached_bytes, write_reqs, uv_writes, submitted >>
       ELSE LET block == results[k]
                cached == cached_bytes + block_len[block]
            IN  /\ cached_bytes' = cached
                /\ write_reqs' = Append(write_reqs, block)
                /\ uv_writes' = Append(uv_writes, block)
                /\ submitted' = Append(submitted, block)
                /\ IF ShouldReadMore(cached) THEN begin_write ELSE UNCHANGED vars
                /\ UNCHANGED block_len
    /\ UNCHANGED << lock_vars, in_vars, sock_vars, cache_size >>

\* begin_write, the on_closed and fail continuations of the k-th read
OnClosed(k) ==
    /\ rpc = "idle"
    /\ k \in DOMAIN results /\ k \notin handled
    /\ results[k] = ChannelClosed
    /\ handled' = handled \cup {k}
    /\ i_close_begin("none")
    /\ UNCHANGED << vars, lock_vars, in_vars, cache_size, block_len, cached_bytes,
                    write_reqs, uv_writes, submitted >>

\* read_again: size_before >= cache_size && cached_bytes_ < cache_size
ShouldWriteMoreAlways(before, after) == TRUE
ShouldWriteMore(before, after) == before >= cache_size /\ after < cache_size

\* read_again, the uv_write callback of the oldest request; ok = ( status == 0 )
ReadAgain(ok) ==
    /\ rpc = "idle"
    /\ handle # "closed"
    /\ uv_writes # << >>
    /\ LET req == Head(uv_writes)
           after == cached_bytes - block_len[req]
       IN  /\ uv_writes' = Tail(uv_writes)
           /\ IF req \in Range(write_reqs)
              THEN /\ write_reqs' = Erase(write_reqs, req)
                   /\ block_len' = Free(req)
                   /\ cached_bytes' = after
                   /\ IF ok
                      THEN /\ IF ShouldWriteMore(cached_bytes, after)
                              THEN begin_write ELSE UNCHANGED vars
                           /\ UNCHANGED sock_vars
                      ELSE i_close_begin("none") /\ UNCHANGED vars
              \* "This really cannot happen": i_close( ), then the end
              \* iterator is dereferenced and erased
              ELSE /\ cached_bytes' \in 0..(MaxCache + MaxBlockLen)
                   /\ write_reqs' \in {write_reqs, << >>}
                   /\ i_close_begin("none")
                   /\ UNCHANGED << vars, block_len >>
    /\ UNCHANGED << lock_vars, in_vars, cache_size, submitted, handled >>

\* read_cb on the inbound side: nread == UV_EOF or nread < 0.  The status
\* i_close is given there is followed in the inbound specification.
OutReadFails ==
    /\ rpc = "idle"
    /\ handle = "open"
    /\ ~sock_closed
    /\ i_close_begin("none")
    /\ UNCHANGED << vars, lock_vars, in_vars, out_vars >>

\* i_close: the exception handed to the close of a channel
CloseCauseNone(st) == "none"
CloseCause(st) == st

\* i_close: writable_in->unset_resume_notification( ); writable_in->close( ... )
OutICloseIn ==
    /\ rpc = "close_in"
    /\ rpc' = "close_out"
    /\ peer_closed' = TRUE
    /\ peer_cause' = IF peer_closed THEN peer_cause ELSE CloseCause(i_status)
    /\ UNCHANGED << vars, lock_vars, in_vars, out_vars, sock_closed, i_status, cause,
                    endpoints_set, handle, keep_alive >>

\* i_close: readable_out->close( status.exception( ) ) or readable_out->close( )
OutICloseOut ==
    /\ rpc = "close_out"
    /\ rpc' = "stop_read"
    /\ cause' = IF closed THEN cause ELSE CloseCause(i_status)
    /\ CloseLocked
    /\ UNCHANGED << owners, close_calls >>
    /\ UNCHANGED << lock_vars, in_vars, out_vars, sock_closed, i_status, peer_closed,
                    peer_cause, endpoints_set, handle, keep_alive >>

\* i_close: stop_read( ); writable_in_.reset( ); readable_out_.reset( );
\* i_close_handle( )
OutICloseHandle ==
    /\ rpc = "stop_read"
    /\ rpc' = "return"
    /\ endpoints_set' = FALSE
    /\ handle' = "closing"
    /\ UNCHANGED << vars, lock_vars, in_vars, out_vars, sock_closed, i_status, cause,
                    peer_closed, peer_cause, keep_alive >>

\* i_close returns: its copy of readable_out was the last handle of that side
OutICloseReturn ==
    /\ rpc = "return"
    /\ rpc' = "idle"
    /\ drop_owner("readable")
    /\ UNCHANGED << lock_vars, in_vars, out_vars, sock_closed, i_status, cause,
                    peer_closed, peer_cause, endpoints_set, handle, keep_alive >>

\* The close callback of the handle, after every write callback has run
OutHandleClosed ==
    /\ rpc = "idle"
    /\ handle = "closing"
    /\ uv_writes = << >>
    /\ handle' = "closed"
    /\ keep_alive' = FALSE
    /\ UNCHANGED << vars, lock_vars, in_vars, out_vars, sock_closed, rpc, i_status,
                    cause, peer_closed, peer_cause, endpoints_set >>

OutReactor ==
    \/ OutAttach
    \/ OutResumeTask
    \/ \E k \in DOMAIN results : OnValue(k)
    \/ \E k \in DOMAIN results : OnClosed(k)
    \/ \E ok \in BOOLEAN : ReadAgain(ok)
    \/ OutReadFails
    \/ OutICloseIn
    \/ OutICloseOut
    \/ OutICloseHandle
    \/ OutICloseReturn
    \/ OutHandleClosed

OutNext ==
    \/ \E v \in Values, n \in 1..MaxBlockLen : UserSend(v, n)
    \/ UserCloseOut
    \/ OutReactor

OutSpec == OutInit /\ [][OutNext]_all_vars

\* The reactor runs every callback that is ready; the peer and the user are
\* under no obligation.
OutFairness ==
    WF_all_vars(\/ OutAttach
                \/ OutResumeTask
                \/ \E k \in DOMAIN results : OnValue(k)
                \/ \E k \in DOMAIN results : OnClosed(k)
                \/ \E ok \in BOOLEAN : ReadAgain(ok)
                \/ OutICloseIn
                \/ OutICloseOut
                \/ OutICloseHandle
                \/ OutICloseReturn
                \/ OutHandleClosed)

OutFairSpec == OutSpec /\ OutFairness

OutTypeOK ==
    /\ buffer_count = backlog_out
    /\ rpc \in {"attach", "idle", "close_in", "close_out", "stop_read", "return"}
    /\ handle \in {"open", "closing", "closed"}
    /\ cache_size \in 1..MaxCache
    /\ cached_bytes \in 0..(MaxCache + MaxBlockLen)
    /\ write_reqs \in Seq(Values) /\ uv_writes \in Seq(Values)
    /\ submitted \in Seq(Values)
    /\ handled \subseteq DOMAIN results
    /\ \A v \in Values : block_len[v] \in 0..MaxBlockLen
    /\ i_status \in {"none", "error"} /\ cause \in {"none", "error"}

\* ---------------------------------------------- tcp_socket: the inbound path
\* The channel variables are channel_in (writable_in_ held by the pimpl, the
\* readable side by the user); channel_out and its pump are kept as
\* peer_closed / peer_cause.  The reactor thread runs the read callback and
\* i_close; the consumer thread runs receive, the resume task on user_queue
\* and whatever that task invokes.

backlog_in == 6

Blocks == 1..MaxReads

InInit ==
    /\ channel(backlog_in, default_resume_count(backlog_in))
    /\ NoLock
    /\ NoPump
    /\ NoRead
    /\ Attaching

\* uv_read_start; on a handle that is closing or closed it fails
start_read == reading' = (reading \/ handle = "open")

\* The notification installed by stop_read: weak_self.lock( ), start_read( )
notification ==
    /\ IF keep_alive THEN start_read ELSE UNCHANGED reading

\* i_attach_dispatcher: start_read( ); begin_write( )
InAttach ==
    /\ rpc = "attach"
    /\ rpc' = "idle"
    /\ start_read
    /\ UNCHANGED << vars, lock_vars, out_vars, pending_starts, sock_closed,
                    i_status, cause, peer_closed, peer_cause, endpoints_set,
                    handle, keep_alive >>

\* read_cb, nread > 0: writable_in_->write( block ); stop_read( false ) if it
\* returned false
ReadData(v) ==
    /\ rpc = "idle"
    /\ reading
    /\ handle = "open"
    /\ send(v)
    /\ IF closed
       THEN reading' = FALSE /\ rpc' = "idle"
       ELSE reading' = reading /\ rpc' = "should_write"
    /\ UNCHANGED << lock_vars, out_vars, pending_starts, sock_closed,
                    i_status, cause, peer_closed, peer_cause, endpoints_set,
                    handle, keep_alive >>

\* read_cb: else if ( !writable_in_->should_write( ) ) stop_read( true ), up
\* to and including uv_read_stop
StopsReading == ~should_send

ReadShouldWrite ==
    /\ rpc = "should_write"
    /\ IF StopsReading
       THEN reading' = FALSE /\ rpc' = "install"
       ELSE reading' = reading /\ rpc' = "idle"
    /\ UNCHANGED << vars, lock_vars, out_vars, pending_starts, sock_closed,
                    i_status, cause, peer_closed, peer_cause, endpoints_set,
                    handle, keep_alive >>

\* stop_read( true ): writable_in_->set_resume_notification( ..., true )
ReadInstall ==
    /\ rpc = "install"
    /\ rpc' = "idle"
    /\ set_resume_notification(TRUE)
    /\ UNCHANGED << lock_vars, out_vars, in_vars, sock_closed, i_status,
                    cause, peer_closed, peer_cause, endpoints_set, handle,
                    keep_alive >>

\* read_cb, nread == UV_EOF ( st = "none" ) or any other nread < 0
ReadFails(st) ==
    /\ rpc = "idle"
    /\ reading
    /\ handle = "open"
    /\ i_close_begin(st)
    /\ UNCHANGED << vars, lock_vars, out_vars, in_vars >>

\* The outbound pump calls i_close( ): write error, on_closed, failed receive
PumpFails ==
    /\ rpc = "idle"
    /\ handle # "closed"
    /\ i_close_begin("none")
    /\ UNCHANGED << vars, lock_vars, out_vars, in_vars >>

\* i_close: writable_in->unset_resume_notification( )
InICloseUnset ==
    /\ rpc = "close_in"
    /\ rpc' = "close_in_2"
    /\ set_resume_notification(FALSE)
    /\ UNCHANGED << lock_vars, out_vars, in_vars, sock_closed, i_status,
                    cause, peer_closed, peer_cause, endpoints_set, handle,
                    keep_alive >>

\* i_close: writable_in->close( status.exception( ) ) or writable_in->close( )
InICloseIn ==
    /\ rpc = "close_in_2"
    /\ rpc' = "close_out"
    /\ cause' = IF closed THEN cause ELSE CloseCause(i_status)
    /\ CloseLocked
    /\ UNCHANGED << owners, close_calls >>
    /\ UNCHANGED << lock_vars, out_vars, in_vars, sock_closed, i_status,
                    peer_closed, peer_cause, endpoints_set, handle,
                    keep_alive >>

\* i_close: readable_out->close( status.exception( ) ) or readable_out->close( )
InICloseOut ==
    /\ rpc = "close_out"
    /\ rpc' = "stop_read"
    /\ peer_closed' = TRUE
    /\ peer_cause' = IF peer_closed THEN peer_cause ELSE CloseCause(i_status)
    /\ UNCHANGED << vars, lock_vars, out_vars, in_vars, sock_closed, i_status,
                    cause, endpoints_set, handle, keep_alive >>

\* i_close: stop_read( ); writable_in_.reset( ); readable_out_.reset( );
\* i_close_handle( )
InICloseHandle ==
    /\ rpc = "stop_read"
    /\ rpc' = "return"
    /\ reading' = FALSE
    /\ endpoints_set' = FALSE
    /\ handle' = "closing"
    /\ UNCHANGED << vars, lock_vars, out_vars, pending_starts, sock_closed,
                    i_status, cause, peer_closed, peer_cause, keep_alive >>

\* i_close returns: its copy of writable_in was the last handle of that side
InICloseReturn ==
    /\ rpc = "return"
    /\ rpc' = "idle"
    /\ drop_owner("writable")
    /\ UNCHANGED << lock_vars, out_vars, in_vars, sock_closed, i_status,
                    cause, peer_closed, peer_cause, endpoints_set, handle,
                    keep_alive >>

\* The close callback of the handle
InHandleClosed ==
    /\ rpc = "idle"
    /\ handle = "closing"
    /\ handle' = "closed"
    /\ keep_alive' = FALSE
    /\ UNCHANGED << vars, lock_vars, out_vars, in_vars, sock_closed, rpc,
                    i_status, cause, peer_closed, peer_cause, endpoints_set >>

\* The user: socket.in( ).receive( ); a notification fired by the inline
\* resume( ) runs inside the call
Consume ==
    /\ Len(results) < MaxConsumes
    /\ receive
    /\ IF fired' > fired THEN notification ELSE UNCHANGED reading
    /\ UNCHANGED << lock_vars, out_vars, sock_vars, pending_starts >>

\* The resume task on user_queue: resume( ) up to the point where it has
\* found the notification and is about to call it
InResumeTask ==
    /\ resume_task
    /\ pending_starts' = IF fired' > fired
                         THEN pending_starts + 1 ELSE pending_starts
    /\ UNCHANGED << lock_vars, out_vars, sock_vars, reading >>

\* resume( ): trigger( )
InNotify ==
    /\ pending_starts > 0
    /\ pending_starts' = pending_starts - 1
    /\ notification
    /\ UNCHANGED << vars, lock_vars, out_vars, sock_vars >>

\* The user: socket.in( ).close( )
UserCloseIn ==
    /\ close_calls < MaxCloses
    /\ close("readable")
    /\ UNCHANGED ext_vars

\* The user: socket.out( ).close( ); the pump's on_closed follows as PumpFails
InUserCloseOut ==
    /\ ~peer_closed
    /\ peer_closed' = TRUE
    /\ UNCHANGED << vars, lock_vars, out_vars, in_vars, sock_closed, rpc,
                    i_status, cause, peer_cause, endpoints_set, handle,
                    keep_alive >>

\* close( ) of the inbound channel, after the mutex: notification( )
InCloseNotify ==
    /\ close_notify
    /\ notification
    /\ UNCHANGED << lock_vars, out_vars, sock_vars, pending_starts >>

InNext ==
    \/ InAttach
    \/ \E v \in Blocks : ReadData(v)
    \/ ReadShouldWrite
    \/ ReadInstall
    \/ \E st \in {"none", "error"} : ReadFails(st)
    \/ PumpFails
    \/ InICloseUnset
    \/ InICloseIn
    \/ InICloseOut
    \/ InICloseHandle
    \/ InICloseReturn
    \/ InHandleClosed
    \/ Consume
    \/ InResumeTask
    \/ InNotify
    \/ UserCloseIn
    \/ InUserCloseOut
    \/ InCloseNotify

InSpec == InInit /\ [][InNext]_all_vars

InTypeOK ==
    /\ buffer_count = backlog_in
    /\ resume_count = default_resume_count(backlog_in)
    /\ rpc \in {"attach", "idle", "should_write", "install", "close_in",
                "close_in_2", "close_out", "stop_read", "return"}
    /\ handle \in {"open", "closing", "closed"}
    /\ reading \in BOOLEAN
    /\ pending_starts \in 0..MaxReads
    /\ queue \in Seq(Blocks)
    /\ i_status \in {"none", "error"}
    /\ cause \in {"none", "error"} /\ peer_cause \in {"none", "error"}

\* ----------------------------------------------------------------- claims

\* Number of receive calls whose promise holds a value.
Delivered == Cardinality({k \in DOMAIN results : IsValue(results[k])})

\* C1: the k-th receive call obtains exactly the k-th successfully sent value.
\* Every promise that holds a value holds the value of the send with the same
\* index, the receives holding values are the first ones (no gap), and the
\* values sent and not yet delivered are exactly the queue, in send order
\* (nothing lost, nothing duplicated).
FifoDelivery ==
    /\ \A k \in DOMAIN results :
           IsValue(results[k]) =>
               /\ k <= Len(sent)
               /\ results[k] = sent[k]
               /\ \A j \in 1..(k - 1) : IsValue(results[j])
    /\ Delivered <= Len(sent)
    /\ queue = SubSeq(sent, Delivered + 1, Len(sent))

\* Two different values were delivered in send order and a third receive is parked.
FifoDeliveryWitness ==
    /\ Len(sent) = 2 /\ sent[1] # sent[2]
    /\ Len(results) = 3
    /\ results[1] = sent[1] /\ results[2] = sent[2]
    /\ results[3] = Pending /\ waiters = << 3 >>

\* C2: the number of buffered values never exceeds buffer_count once a send
\* has returned (send is one step under the mutex, so every state is one in
\* which no send is in progress).
QueueWithinCapacity == Len(queue) <= buffer_count

\* C3: on an open channel with no parked waiter, a send that brings
\* queue.size to buffer_count or more sets paused = true, and should_send( )
\* is then false; so it is after buffer_count sends into an empty channel.
PausedAtCapacity ==
    [][(Len(queue') = Len(queue) + 1 /\ Len(queue') >= buffer_count)
           => (paused' /\ ~should_send')]_vars

\* C4: hysteresis.  A receive on a paused channel that pops and leaves
\* queue.size >= resume_count schedules nothing and leaves paused true; one
\* that leaves queue.size < resume_count schedules resume( ) on default_queue
\* without running it inline; once the task has run paused is false.  With
\* cap = 4, resume = 3, a notification installed, 4 sends and 2 receives, the
\* run of the scheduled task leaves paused false and the notification fired
\* exactly once.
PopStep == Len(queue') = Len(queue) - 1
TaskStep == resume_tasks' = resume_tasks - 1
HysteresisScenario ==
    [][/\ (paused /\ PopStep /\ Len(queue') >= resume_count)
              => (resume_tasks' = resume_tasks /\ paused' /\ fired' = fired)
       /\ (paused /\ PopStep /\ Len(queue') < resume_count)
              => (resume_tasks' = resume_tasks + 1 /\ paused' /\ fired' = fired)
       /\ TaskStep => ~paused'
       /\ ( /\ buffer_count = 4 /\ resume_count = 3
            /\ ~closed /\ resume_notification
            /\ Len(sent) = 4 /\ rejected = 0
            /\ Len(results) = 2 /\ IsValue(results[1]) /\ IsValue(results[2])
            /\ fired = 0 /\ resume_tasks = 1
            /\ TaskStep )
              => (~paused' /\ fired' = 1)]_vars

\* C5: resume-once.  On an open channel with a notification installed, the
\* notification is invoked exactly once by each step that takes paused from
\* true to false, and by no other step.
Invocations == fired + close_fired
ResumeOnce ==
    [][(~closed' /\ resume_notification)
           => Invocations' = Invocations + (IF paused /\ ~paused' THEN 1 ELSE 0)]_vars

\* One pause episode (cap = 2, resume = 2, three sends), three receives of
\* which two scheduled resume( ), both tasks have run: fired once.
ResumeOnceWitness ==
    /\ buffer_count = 2 /\ resume_count = 2
    /\ ~closed /\ resume_notification
    /\ Len(sent) = 3 /\ Len(results) = 3
    /\ \A k \in 1..3 : IsValue(results[k])
    /\ resume_tasks = 0 /\ ~paused
    /\ fired = 1

\* C6: every send issued on a closed channel fails with ChannelClosed: no
\* value is accepted after close, and the failing send leaves queue, waiters,
\* paused and every receiver's promise unchanged.
SendAfterCloseFails ==
    [][closed => /\ sent' = sent
                 /\ (rejected' # rejected
                        => UNCHANGED << queue, waiters, paused, results >>)]_vars

\* A send was refused while values were still buffered.
SendAfterCloseFailsWitness ==
    closed /\ rejected >= 1 /\ queue # << >>

\* C7 as stated: after close no receive yields a value or stays pending:
\* every receive issued on a closed channel is rejected.
ReceiveAfterCloseRejected ==
    [][(closed /\ Len(results') = Len(results) + 1)
           => results'[Len(results')] = ChannelClosed]_vars

\* C7 amended: a receive issued on a closed channel returns the head of the
\* queue while values are still buffered, and is rejected with ChannelClosed
\* once the queue is empty; it never stays pending.
ReceiveAfterCloseDrainsThenRejects ==
    [][(closed /\ Len(results') = Len(results) + 1)
           => results'[Len(results')] =
                  (IF queue # << >> THEN Head(queue) ELSE ChannelClosed)]_vars

\* After close one receive obtained a buffered value and the next was rejected.
ReceiveAfterCloseWitness ==
    /\ closed /\ receives_at_close = 0
    /\ Len(results) = 2
    /\ IsValue(results[1]) /\ results[2] = ChannelClosed

\* C8: close-after-data.  close discards no buffered value, and a receive is
\* rejected only after all N sent values have been delivered, in order, to
\* the receives before it.
CloseAfterData ==
    /\ [][(closed' /\ ~closed) => queue' = queue]_vars
    /\ [](\A k \in DOMAIN results :
              results[k] = ChannelClosed =>
                  /\ Len(sent) < k
                  /\ \A j \in 1..Len(sent) : results[j] = sent[j])

\* Closed after two sends with nothing received; the receives issued after
\* the close obtained both values and then the close signal.
CloseAfterDataWitness ==
    /\ closed /\ receives_at_close = 0
    /\ Len(sent) = 2 /\ sent[1] # sent[2]
    /\ results = << sent[1], sent[2], ChannelClosed >>

\* C9: closed implies waiters is empty and no receiver is left pending (close
\* rejected every parked one, and no receive parks after close); closed never
\* returns to false.
ClosedHasNoWaiters ==
    /\ [](closed => /\ waiters = << >>
                    /\ \A k \in DOMAIN results : results[k] # Pending)
    /\ [][closed => closed']_vars

\* A receive parked before the close was rejected by it.
ClosedHasNoWaitersWitness ==
    /\ closed /\ receives_at_close >= 1
    /\ results[receives_at_close] = ChannelClosed
    /\ waiters = << >>

\* C10: a close call on an already closed channel (explicit, or run by the
\* destructor of a side's last handle) changes no state and takes no
\* notification to invoke.
CloseCallStep == close_calls' # close_calls \/ owners' # owners
IdempotentClose ==
    [][(closed /\ CloseCallStep)
           => /\ UNCHANGED << queue, waiters, closed, paused, results,
                              resume_notification, resume_tasks >>
              /\ close_pending' = close_pending]_vars

\* The longest block the socket holds, in the channel or in write_reqs_.
LargestBlock == CHOOSE n \in Range(block_len) : \A m \in Range(block_len) : m <= n

\* A step in which the pump issued a receive on the outbound channel.
PumpReceives == Len(results') > Len(results) /\ rpc # "attach"

\* C11: cached_bytes_ never exceeds cache_size plus the largest single block;
\* every receive the pump issues after the first leaves cached_bytes_ below
\* cache_size, and one issued from a write completion happens only when that
\* completion succeeded and took cached_bytes_ from >= cache_size to below it.
PumpBackpressure ==
    [][ /\ cached_bytes' <= cache_size + LargestBlock'
        /\ PumpReceives =>
              /\ cached_bytes' < cache_size
              /\ Len(uv_writes') < Len(uv_writes) =>
                    cached_bytes >= cache_size /\ ~sock_closed' ]_all_vars

\* The pump is held back above cache_size with blocks waiting in the channel,
\* after at least one write completion.
PumpBackpressureWitness ==
    /\ cached_bytes > cache_size
    /\ queue # << >>
    /\ Len(uv_writes) < Len(submitted)
    /\ Len(results) >= 2
    /\ ~sock_closed

\* C12: the blocks handed to uv_write are, in order, the first blocks accepted
\* by socket.out( ); and every accepted block is eventually handed to uv_write
\* unless the socket closes.
SubmittedInOrder ==
    /\ [](submitted = SubSeq(sent, 1, Len(submitted)))
    /\ (Len(submitted) < Len(sent)) ~> (Len(submitted) = Len(sent) \/ sock_closed)

\* Three blocks submitted, the later ones by re-invocations of the pump from
\* a write completion, with the socket still open.
SubmittedInOrderWitness ==
    /\ Len(submitted) = MaxBlocks
    /\ Len(uv_writes) < Len(submitted)
    /\ cached_bytes >= cache_size
    /\ ~sock_closed

\* backlog_in blocks are buffered, the read callback has returned and the
\* user has neither received nor closed.
BacklogBuffered ==
    /\ Len(queue) >= backlog_in
    /\ results = << >>
    /\ ~closed
    /\ rpc = "idle"

\* C13: if the user never receives, then once backlog_in blocks are buffered
\* in the inbound channel uv_read_stop has been issued and no further block
\* is read from the OS.
InboundBackpressure ==
    /\ [](BacklogBuffered => ~reading)
    /\ [][BacklogBuffered => sent' = sent]_all_vars

\* Neither thread has anything left to run: the read callback has returned,
\* no resume task is queued and no notification is about to be called.
InQuiescent ==
    /\ rpc = "idle"
    /\ resume_tasks = 0
    /\ pending_starts = 0
    /\ close_pending = 0

\* C14: no lost wakeup.  The socket never rests with OS reads stopped while
\* it is open and the inbound channel is open and not paused: whenever
\* stop_read( true ) stopped the reads and the consumer drained the channel,
\* start_read has been invoked again by the time both threads are idle.
NoLostWakeup ==
    (InQuiescent /\ handle = "open" /\ ~sock_closed /\ ~closed /\ ~paused)
        => reading

\* A step in which the notification of stop_read calls start_read.
StartReadInvoked ==
    /\ keep_alive
    /\ \/ pending_starts' < pending_starts
       \/ close_fired' > close_fired
       \/ fired' > fired /\ Len(results') > Len(results)

\* A first i_close has run to its end.
ICloseDone == sock_closed /\ rpc = "idle"

\* C15: in the first i_close both channels are closed, the inbound one with
\* its resume notification cleared, before OS reads are stopped and the
\* handle close is initiated; after i_close no block is delivered into the
\* inbound channel and start_read is not invoked; later i_close calls change
\* nothing.
CloseOrdering ==
    /\ [][handle' # handle /\ handle' = "closing" =>
             closed /\ peer_closed /\ ~resume_notification]_all_vars
    /\ [][ICloseDone => sent' = sent]_all_vars
    /\ [][ICloseDone => ~StartReadInvoked]_all_vars
    /\ [][ICloseDone /\ rpc' # "idle" => FALSE]_all_vars

PumpHolds == \E k \in DOMAIN results : k \notin handled

\* Nothing inside the socket holds the pimpl: it lives exactly as long as an
\* external owner holds a reference, and is destroyed when there is none.
Unowned == ~keep_alive /\ ~PumpHolds

\* Conditions (a) to (c): handle closed, both channels closed, write_reqs_ empty.
ShutDown ==
    /\ handle = "closed"
    /\ closed /\ peer_closed
    /\ write_reqs = << >>

RECURSIVE SumLen(_)
SumLen(reqs) ==
    IF reqs = << >> THEN 0 ELSE block_len[Head(reqs)] + SumLen(Tail(reqs))

\* A step in which a write completion callback ran.
WriteCompletes == Len(uv_writes') < Len(uv_writes)

\* C21: cached_bytes_ is the sum of buf_len_ over write_reqs_; every request
\* handed to uv_write whose callback has not run is in write_reqs_; and every
\* write completion, also one that arrives after i_close, finds its
\* descriptor, so the "not found" branch of read_again is never taken.
DescriptorFound ==
    /\ [](cached_bytes = SumLen(write_reqs))
    /\ [](Range(uv_writes) \subseteq Range(write_reqs))
    /\ [][WriteCompletes => Head(uv_writes) \in Range(write_reqs)]_all_vars

\* i_close has run to its end with two write requests still pending: their
\* completions arrive after it and their descriptors are in write_reqs_.
DescriptorFoundWitness ==
    /\ sock_closed /\ rpc = "idle"
    /\ handle = "closing"
    /\ Len(uv_writes) >= 2
    /\ Range(uv_writes) \subseteq Range(write_reqs)
    /\ cached_bytes > 0

\* C18: queue and waiters are never both non-empty; a send that finds a
\* waiter parked resolves the head waiter and leaves queue and paused
\* unchanged, and a receive parks a waiter only when the queue is empty.
QueueOrWaitersEmpty ==
    /\ [](queue = << >> \/ waiters = << >>)
    /\ [][/\ (Len(sent') > Len(sent) /\ waiters # << >>)
                => /\ UNCHANGED << queue, paused >>
                   /\ waiters' = Tail(waiters)
                   /\ results'[Head(waiters)] = sent'[Len(sent')]
          /\ Len(waiters') > Len(waiters) => queue = << >>]_vars

\* S3: cap = 2, a waiter parked on the empty channel, then one send: the
\* waiter holds the value, the queue is empty and paused is false.
QueueOrWaitersEmptyWitness ==
    /\ buffer_count = 2 /\ ~closed
    /\ Len(sent) = 1 /\ results = << sent[1] >>
    /\ queue = << >> /\ waiters = << >> /\ ~paused

\* C19: the channel mutex is never held while the resume notification is
\* invoked.  The steps that change queue, waiters or a promise are the
\* blocks run under the mutex, so no such step invokes the notification.
NotificationOutsideMutex ==
    [][Invocations' # Invocations
           => UNCHANGED << queue, waiters, results >>]_vars

\* C20: resume_notification_ is read and written only under the channel
\* mutex: no thread reads it while set_resume_notification is storing it.
NotificationReadUnderMutex == ~race
====
